---- MODULE Spec2Model ----
(***************************************************************************)
(* Model of the blog-api HTTP handlers, services, ownership guard and      *)
(* SQLite storage.                                                         *)
(*                                                                         *)
(* The repository is modelled at its latest snapshot of each layer:        *)
(*   handlers/user     src/README.md (lines 68-370)                        *)
(*   handlers/article  src/unnamed/part_000                                *)
(*   lib/jwt           src/unnamed/part_005                                *)
(*   service/user      src/unnamed/part_004                                *)
(*   service/article   src/unnamed/part_003 (lines 56-206)                 *)
(*   storage/sqlite    src/unnamed/part_001                                *)
(*                                                                         *)
(* Every handler is one atomic action: the request is drawn from small     *)
(* sets, the handler runs to its last response write, and the request      *)
(* together with everything the handler produced is left in `last` until   *)
(* the handler has returned (Done) and the next request is taken.          *)
(*                                                                         *)
(* Storage is modelled by the effect of each SQL statement on the table    *)
(* it addresses.  The tables are taken to exist with the column the        *)
(* statements name for the article's owner (the schema text calls it       *)
(* author_id, the statements user_id); foreign keys are not enforced, as   *)
(* in SQLite's default configuration.  The publish date of a row is read   *)
(* into the field models.Article declares in                               *)
(* src/internal/domain/models/article.go.  Storage calls fail for the      *)
(* reasons the SQL semantics give and, while io is "fail", with the error  *)
(* of PrepareContext; while io names one storage method, that method       *)
(* alone fails.                                                            *)
(*                                                                         *)
(* Specifications:                                                         *)
(*   SpecUsers, SpecArticles  the routes of each half, no faults           *)
(*   SpecFaults               the users routes, the database may fail      *)
(*   SpecProfileFaults,                                                    *)
(*   SpecEditFaults           the two-write handlers, one method may fail  *)
(*   SpecEdits                article updates of two published articles    *)
(*   SpecAccounts             removal of users and creation of articles    *)
(*   SpecGate                 one request to any route, with any token     *)
(*   SpecRace                 register served by two goroutines            *)
(*   SpecArticleRace          article writes served by two goroutines      *)
(***************************************************************************)
EXTENDS Integers, Sequences, FiniteSets, TLC

(***************************************************************************)
(* Bounds of the model.                                                    *)
(***************************************************************************)
\* largest rowid the users table may hold
MaxUsers == 2
\* largest rowid the articles table may hold
MaxArticles == 2

UserNames == {"alice", "bob"}
Passwords == {"pw1", "pw2"}
Statuses == {"busy"}
Titles == {"t1", "t2"}
Contents == {"c1"}

VARIABLES
    users,      \* table users: rowid -> [name, pass_hash, status]
    articles,   \* table articles: rowid -> [title, content, publish_date, user_id]
    last,       \* the request being answered and what its handler produced
    sentinels,  \* the package-level error variables that errors.As is given
    io,         \* "ok", "fail" while the database file cannot be used, or
                \* the name of the one storage call that fails
    inflight,   \* the register requests being served concurrently
    removed,    \* history: the ids of the users removed so far
    serving     \* the article requests being served concurrently

vars == <<users, articles, last, sentinels, io, inflight, removed, serving>>

(***************************************************************************)
(* Go values.                                                              *)
(***************************************************************************)
\* An error is the chain of its wrapped messages, outermost first; the nil
\* error is the empty chain.
Nil == <<>>

\* fmt.Errorf("%s: %w", op, err).  Errorf never returns nil: wrapping a nil
\* error yields an error whose text ends in "%!w(<nil>)".
Errorf(op, err) == IF err = Nil THEN <<op, "%!w(<nil>)">> ELSE <<op>> \o err

\* errors.Is(err, target) for a sentinel target: some error of the chain is
\* the sentinel.
ErrorsIs(err, target) == \E i \in 1..Len(err) : err[i] = target

\* The sentinels, by package.
StorageErrUserExists == "storage.ErrUserExists"
StorageErrArticleExists == "storage.ErrArticleExists"
StorageErrArticleNotFound == "storage.ErrArticleNotFound"
UserErrUserExists == "user.ErrUserExists"
UserErrUserNotFound == "user.ErrUserNotFound"
ArticleErrArticleExists == "article.ErrArticleExists"
ArticleErrArticleNotFound == "article.ErrArticleNotFound"
SqlErrNoRows == "sql.ErrNoRows"
SqliteConstraintUnique == "sqlite3.ErrConstraintUnique"
BcryptMismatch == "bcrypt.ErrMismatchedHashAndPassword"
\* a sqlite3.Error that is no constraint violation (the file is unreadable)
SqliteIoErr == "sqlite3.ErrIoErr"


(***************************************************************************)
(* strconv.  Path parameters and expected claims travel as decimal text.   *)
(***************************************************************************)
Digit == <<"0", "1", "2", "3", "4", "5", "6", "7", "8", "9">>

\* the numbers whose text the model parses (every id of the model is below)
ParseRange == 0..9

RECURSIVE Itoa(_)
\* strconv.Itoa
Itoa(n) == IF n < 10 THEN Digit[n + 1] ELSE Itoa(n \div 10) \o Digit[(n % 10) + 1]

\* strconv.Atoi: the number a decimal text denotes, or (0, err)
Atoi(s) ==
    IF \E n \in ParseRange : Itoa(n) = s
    THEN [v |-> CHOOSE n \in ParseRange : Itoa(n) = s, err |-> Nil]
    ELSE [v |-> 0, err |-> <<"strconv.Atoi: invalid syntax">>]

\* strconv.ParseFloat(s, 64): accepts what Atoi accepts and also a fraction
\* part, so "1.0" parses to 1.
ParseFloat(s) ==
    IF \E n \in ParseRange : s \in {Itoa(n), Itoa(n) \o ".0"}
    THEN [v |-> CHOOSE n \in ParseRange : s \in {Itoa(n), Itoa(n) \o ".0"}, err |-> Nil]
    ELSE [v |-> 0, err |-> <<"strconv.ParseFloat: invalid syntax">>]

(***************************************************************************)
(* bcrypt.  A hash is opaque and is not the password; the salt, which      *)
(* makes two hashes of one password differ, is left out.                   *)
(***************************************************************************)
GenerateFromPassword(password) == [alg |-> "bcrypt", of |-> password]

\* CompareHashAndPassword as it would be if every password matched.
CompareHashAndPassword_AnyPassword(hash, password) == Nil

CompareHashAndPassword(hash, password) ==
    IF hash.of = password THEN Nil ELSE <<BcryptMismatch>>

(***************************************************************************)
(* Tokens and the request context.                                         *)
(***************************************************************************)
\* the empty token string
NoToken == [empty |-> TRUE, uid |-> 0]

\* jwt.NewToken: claims uid = user.ID and exp, signed with the secret.
NewToken(user) == [token |-> [empty |-> FALSE, uid |-> user.id], err |-> Nil]

\* The uid claim a verified token leaves in the request context.  JSON
\* numbers decode to float64, so a token of NewToken carries a float64 uid.
AbsentClaim == [kind |-> "absent", num |-> 0, str |-> ""]
Float64Claim(n) == [kind |-> "float64", num |-> n, str |-> ""]
StringClaim(s) == [kind |-> "string", num |-> 0, str |-> s]
BoolClaim == [kind |-> "bool", num |-> 0, str |-> ""]

ClaimsOf(token) == Float64Claim(token.uid)

\* CheckClaim as it would be if a numeric uid that differs from the expected
\* one were let through without an error.
CheckClaim_MismatchNoError(ctx, expectedClaim) ==
    IF ctx.err # Nil THEN [ok |-> FALSE, err |-> Errorf("CheckClaim", ctx.err)]
    ELSE LET c == ctx.uid IN
        CASE c.kind = "float64" ->
                LET expClaim == ParseFloat(expectedClaim) IN
                IF expClaim.err # Nil
                THEN [ok |-> FALSE, err |-> Errorf("CheckClaim", expClaim.err)]
                ELSE [ok |-> TRUE, err |-> Nil]
          [] c.kind = "string" ->
                IF c.str # expectedClaim
                \* one operand, the nil err, for the two verbs of the format
                THEN [ok |-> FALSE,
                      err |-> <<"%!s(<nil>): the claims are not satisfied: %!w(MISSING)">>]
                ELSE [ok |-> TRUE, err |-> Nil]
          [] OTHER -> [ok |-> TRUE, err |-> Nil]

\* jwt.CheckClaim(ctx, "uid", expectedClaim): (bool, error)
CheckClaim(ctx, expectedClaim) ==
    IF ctx.err # Nil THEN [ok |-> FALSE, err |-> Errorf("CheckClaim", ctx.err)]
    ELSE LET c == ctx.uid IN
        CASE c.kind = "float64" ->
                LET expClaim == ParseFloat(expectedClaim) IN
                IF expClaim.err # Nil
                THEN [ok |-> FALSE, err |-> Errorf("CheckClaim", expClaim.err)]
                ELSE IF c.num # expClaim.v
                     \* the err wrapped here is the nil error of ParseFloat
                     THEN [ok |-> TRUE, err |-> Errorf("CheckClaim", Nil)]
                     ELSE [ok |-> TRUE, err |-> Nil]
          [] c.kind = "string" ->
                IF c.str # expectedClaim
                \* one operand, the nil err, for the two verbs of the format
                THEN [ok |-> FALSE,
                      err |-> <<"%!s(<nil>): the claims are not satisfied: %!w(MISSING)">>]
                ELSE [ok |-> TRUE, err |-> Nil]
          [] OTHER -> [ok |-> TRUE, err |-> Nil]

(***************************************************************************)
(* storage/sqlite.  A table is a function from the rowids it holds to its  *)
(* rows.  Each operator is one method: it takes the table and returns the  *)
(* table after the statement together with the method's results.  While io *)
(* is "fail" PrepareContext fails and the method returns that error,       *)
(* wrapped; while io is the name of a method, that method alone fails so.  *)
(***************************************************************************)
\* PrepareContext of the method named op returns an error
Fails(op) == io = "fail" \/ io = op

Max(S) == CHOOSE m \in S : \A x \in S : x <= m

\* The rowid an INSERT gives a row of a table declared id INTEGER PRIMARY
\* KEY, without AUTOINCREMENT: one more than the largest rowid in the table.
NewRowid(table) == IF DOMAIN table = {} THEN 1 ELSE Max(DOMAIN table) + 1

\* the ids of a table in ascending order
RECURSIVE Ascending(_)
Ascending(S) ==
    IF S = {} THEN <<>>
    ELSE LET m == CHOOSE x \in S : \A y \in S : x <= y IN <<m>> \o Ascending(S \ {m})

\* the table with one more row
Insert(table, row) ==
    [id \in DOMAIN table \cup {NewRowid(table)} |->
        IF id \in DOMAIN table THEN table[id] ELSE row]

\* the table without the rows of the given ids
Delete(table, ids) == [id \in DOMAIN table \ ids |-> table[id]]

\* Storage.Register as it would be if name were not declared UNIQUE.
Storage_Register_NoUnique(us, username, passHash) ==
    [users |-> Insert(us, [name |-> username, pass_hash |-> passHash, status |-> ""]),
     err |-> Nil]

\* Storage.Register: INSERT INTO users (name, pass_hash, registration_date).
\* name is UNIQUE; status takes its default ''.
Storage_Register(us, username, passHash) ==
    IF Fails("storage.sqlite.Register") THEN [users |-> us, err |-> Errorf("storage.sqlite.Register", <<SqliteIoErr>>)] ELSE
    IF \E id \in DOMAIN us : us[id].name = username
    THEN [users |-> us,
          err |-> Errorf("storage.sqlite.Register", <<StorageErrUserExists>>)]
    ELSE [users |-> Insert(us, [name |-> username, pass_hash |-> passHash, status |-> ""]),
          err |-> Nil]

\* the zero models.User
NoUser ==
    [id |-> 0, name |-> "", password |-> "", pass_hash |-> [alg |-> "", of |-> ""],
     status |-> ""]

\* Storage.UserByName as it would be if the id were not selected (as in
\* GetArticleByID): the user returned has ID 0.
Storage_UserByName_NoID(us, username) ==
    IF \E id \in DOMAIN us : us[id].name = username
    THEN LET id == CHOOSE i \in DOMAIN us : us[i].name = username IN
         [user |-> [NoUser EXCEPT !.name = us[id].name, !.pass_hash = us[id].pass_hash],
          err |-> Nil]
    ELSE [user |-> NoUser, err |-> Errorf("storage.sqlite.UserByName", <<SqlErrNoRows>>)]

\* Storage.UserByName: SELECT id, name, pass_hash FROM users WHERE name = ?
\* Scan of no row gives sql.ErrNoRows, which is no sqlite3.Error and is
\* wrapped as it is.
Storage_UserByName(us, username) ==
    IF Fails("storage.sqlite.UserByName") THEN [user |-> NoUser, err |-> Errorf("storage.sqlite.UserByName", <<SqliteIoErr>>)] ELSE
    IF \E id \in DOMAIN us : us[id].name = username
    THEN LET id == CHOOSE i \in DOMAIN us : us[i].name = username IN
         [user |-> [NoUser EXCEPT !.id = id, !.name = us[id].name,
                                  !.pass_hash = us[id].pass_hash],
          err |-> Nil]
    ELSE [user |-> NoUser, err |-> Errorf("storage.sqlite.UserByName", <<SqlErrNoRows>>)]

\* Storage.UserByID as it would be if pass_hash were among the columns
\* selected, as it is in UserByName.
Storage_UserByID_WithHash(us, id) ==
    IF id \in DOMAIN us
    THEN [user |-> [NoUser EXCEPT !.id = id, !.name = us[id].name,
                                  !.status = us[id].status,
                                  !.pass_hash = us[id].pass_hash],
          err |-> Nil]
    ELSE [user |-> NoUser, err |-> Errorf("storage.sqlite.UserByID", <<SqlErrNoRows>>)]

\* Storage.UserByID: SELECT id, name, registration_date, status FROM users
\* WHERE id = ?  Scan of no row gives sql.ErrNoRows, wrapped as it is.
Storage_UserByID(us, id) ==
    IF Fails("storage.sqlite.UserByID") THEN [user |-> NoUser, err |-> Errorf("storage.sqlite.UserByID", <<SqliteIoErr>>)] ELSE
    IF id \in DOMAIN us
    THEN [user |-> [NoUser EXCEPT !.id = id, !.name = us[id].name,
                                  !.status = us[id].status],
          err |-> Nil]
    ELSE [user |-> NoUser, err |-> Errorf("storage.sqlite.UserByID", <<SqlErrNoRows>>)]

\* Storage.RemoveUser: DELETE FROM users WHERE id = ?  (no row: no error)
Storage_RemoveUser(us, id) ==
    IF Fails("storage.sqlite.RemoveUser") THEN [users |-> us, err |-> Errorf("storage.sqlite.RemoveUser", <<SqliteIoErr>>)] ELSE
    [users |-> Delete(us, {id}), err |-> Nil]

\* Storage.UpdateUserName as it would be if name were not declared UNIQUE.
Storage_UpdateUserName_NoUnique(us, id, username) ==
    IF id \notin DOMAIN us THEN [users |-> us, err |-> Nil]
    ELSE [users |-> [us EXCEPT ![id].name = username], err |-> Nil]

\* Storage.UpdateUserName: UPDATE users SET name = ? WHERE id = ?
\* A name another row holds violates UNIQUE; the sqlite error is wrapped as
\* it is.  No row of that id: no error.
Storage_UpdateUserName(us, id, username) ==
    IF Fails("storage.service.UpdateUserName") THEN [users |-> us, err |-> Errorf("storage.service.UpdateUserName", <<SqliteIoErr>>)] ELSE
    IF id \notin DOMAIN us THEN [users |-> us, err |-> Nil]
    ELSE IF \E o \in DOMAIN us \ {id} : us[o].name = username
    THEN [users |-> us,
          err |-> Errorf("storage.service.UpdateUserName", <<SqliteConstraintUnique>>)]
    ELSE [users |-> [us EXCEPT ![id].name = username], err |-> Nil]

\* Storage.UpdateStatus as it would be if its statement were the one of
\* UpdateUserName, SET name = ?.
Storage_UpdateStatus_SetsName(us, id, status) ==
    IF id \notin DOMAIN us THEN [users |-> us, err |-> Nil]
    ELSE [users |-> [us EXCEPT ![id].name = status], err |-> Nil]

\* Storage.UpdateStatus: UPDATE users SET status = ? WHERE id = ?
Storage_UpdateStatus(us, id, status) ==
    IF Fails("storage.sqlite.UpdateStatus") THEN [users |-> us, err |-> Errorf("storage.sqlite.UpdateStatus", <<SqliteIoErr>>)] ELSE
    IF id \notin DOMAIN us THEN [users |-> us, err |-> Nil]
    ELSE [users |-> [us EXCEPT ![id].status = status], err |-> Nil]

\* the zero models.Article
NoArticle == [id |-> 0, title |-> "", content |-> "", publish_date |-> "", user_id |-> 0]

\* Storage.GetArticleByID: SELECT title, content, publish_date, user_id
\* FROM articles WHERE id = ?  The id is not selected, so the article
\* returned has ID 0.  Scan of no row gives sql.ErrNoRows, wrapped as it is.
Storage_GetArticleByID(as, id) ==
    IF Fails("storage.sqlite.GetArticleByID") THEN [art |-> NoArticle, err |-> Errorf("storage.sqlite.GetArticleByID", <<SqliteIoErr>>)] ELSE
    IF id \in DOMAIN as
    THEN [art |-> [id |-> 0, title |-> as[id].title, content |-> as[id].content,
                   publish_date |-> as[id].publish_date, user_id |-> as[id].user_id],
          err |-> Nil]
    ELSE [art |-> NoArticle,
          err |-> Errorf("storage.sqlite.GetArticleByID", <<SqlErrNoRows>>)]

\* Storage.GetAllArticles: SELECT * FROM articles, every column of every
\* row, in rowid order
Storage_GetAllArticles(as) ==
    IF Fails("storage.sqlite.GetAllArticles") THEN [arts |-> <<>>, err |-> Errorf("storage.sqlite.GetAllArticles", <<SqliteIoErr>>)] ELSE
    LET ids == Ascending(DOMAIN as) IN
    [arts |-> [i \in 1..Len(ids) |->
                 [id |-> ids[i], title |-> as[ids[i]].title, content |-> as[ids[i]].content,
                  publish_date |-> as[ids[i]].publish_date, user_id |-> as[ids[i]].user_id]],
     err |-> Nil]

\* Storage.CreateArticle as it would be if the user_id column were left out
\* of the INSERT and took the zero value.
Storage_CreateArticle_NoOwner(as, userID, title, content, publishDate) ==
    [articles |-> Insert(as, [title |-> title, content |-> content,
                              publish_date |-> publishDate, user_id |-> 0]),
     err |-> Nil]

\* Storage.CreateArticle: INSERT INTO articles (title, content,
\* publish_date, user_id).  No column is UNIQUE and the reference to users
\* is not enforced.
Storage_CreateArticle(as, userID, title, content, publishDate) ==
    IF Fails("storage.sqlite.CreateArticle") THEN [articles |-> as, err |-> Errorf("storage.sqlite.CreateArticle", <<SqliteIoErr>>)] ELSE
    [articles |-> Insert(as, [title |-> title, content |-> content,
                              publish_date |-> publishDate, user_id |-> userID]),
     err |-> Nil]

\* Storage.UpdateArticleTitle: UPDATE articles SET title = ? WHERE id = ?
Storage_UpdateArticleTitle(as, id, title) ==
    IF Fails("storage.sqlite.UpdateArticleTitle") THEN [articles |-> as, err |-> Errorf("storage.sqlite.UpdateArticleTitle", <<SqliteIoErr>>)] ELSE
    IF id \notin DOMAIN as THEN [articles |-> as, err |-> Nil]
    ELSE [articles |-> [as EXCEPT ![id].title = title], err |-> Nil]

\* Storage.UpdateArticleContent: UPDATE articles SET content = ? WHERE id = ?
Storage_UpdateArticleContent(as, id, content) ==
    IF Fails("storage.sqlite.UpdateArticleContent") THEN [articles |-> as, err |-> Errorf("storage.sqlite.UpdateArticleContent", <<SqliteIoErr>>)] ELSE
    IF id \notin DOMAIN as THEN [articles |-> as, err |-> Nil]
    ELSE [articles |-> [as EXCEPT ![id].content = content], err |-> Nil]

\* Storage.RemoveArticle: DELETE FROM articles WHERE id = ?
Storage_RemoveArticle(as, id) ==
    IF Fails("storage.sqlite.RemoveArticle") THEN [articles |-> as, err |-> Errorf("storage.sqlite.RemoveArticle", <<SqliteIoErr>>)] ELSE
    [articles |-> Delete(as, {id}), err |-> Nil]

(***************************************************************************)
(* service/user.                                                           *)
(***************************************************************************)
\* errors.As(err, &sentinel) with a sentinel variable of type error: every
\* non-nil error is assignable to the target, so it matches every error.
ErrorsAsError(err) == err # Nil

\* the value of the variable target after errors.As(err, &target): a match
\* assigns the matching error, which is err itself, to it
ErrorsAsTarget(target, err) == IF err # Nil THEN err ELSE target

\* Service.Register from the return of Storage.Register on: r is what the
\* storage call gave
UserService_Register_Return(r) ==
    IF r.err # Nil
    THEN IF ErrorsIs(r.err, StorageErrUserExists)
         THEN [users |-> r.users,
               err |-> Errorf("service.user.Register", <<UserErrUserExists>>)]
         ELSE [users |-> r.users, err |-> Errorf("service.user.Register", r.err)]
    ELSE [users |-> r.users, err |-> Nil]

\* Service.Register
UserService_Register(us, userName, password) ==
    LET passHash == GenerateFromPassword(password)
        r == Storage_Register(us, userName, passHash)
    IN  UserService_Register_Return(r)

\* Service.Login
UserService_Login(us, userName, password) ==
    LET r == Storage_UserByName(us, userName)
        same == sentinels.storageErrUserNotFound
    IN
    IF r.err # Nil
    THEN IF ErrorsAsError(r.err)
         THEN [token |-> NoToken,
               err |-> Errorf("service.user.Login", <<UserErrUserNotFound>>),
               errUserNotFound |-> ErrorsAsTarget(same, r.err)]
         ELSE [token |-> NoToken, err |-> Errorf("service.user.Login", r.err),
               errUserNotFound |-> ErrorsAsTarget(same, r.err)]
    ELSE LET cmp == CompareHashAndPassword(r.user.pass_hash, password) IN
         IF cmp # Nil
         THEN [token |-> NoToken,
               err |-> Errorf("service.user.Login: incorrect password", cmp),
               errUserNotFound |-> same]
         ELSE LET t == NewToken(r.user) IN
              IF t.err # Nil
              THEN [token |-> NoToken,
                    err |-> Errorf("service.user.Login: failed to create new token", t.err),
                    errUserNotFound |-> same]
              ELSE [token |-> t.token, err |-> Nil, errUserNotFound |-> same]

\* Service.UserByID: the error of the storage is returned as it is
UserService_UserByID(us, id) == Storage_UserByID(us, id)

\* Service.GetAll of the users: every user, as UserByID returns one
UserService_GetAll(us) ==
    IF Fails("service.user.GetAll")
    THEN [users |-> <<>>, err |-> Errorf("service.user.GetAll", <<SqliteIoErr>>)]
    ELSE LET ids == Ascending(DOMAIN us) IN
         [users |-> [i \in 1..Len(ids) |->
                        [NoUser EXCEPT !.id = ids[i], !.name = us[ids[i]].name,
                                       !.status = us[ids[i]].status]],
          err |-> Nil]

\* Service.Remove
UserService_Remove(us, id) ==
    LET r == Storage_RemoveUser(us, id) IN [users |-> r.users, err |-> r.err]

\* Service.UpdateUserName
UserService_UpdateUserName(us, id, userName) ==
    LET r == Storage_UpdateUserName(us, id, userName) IN
    IF r.err # Nil
    THEN [users |-> r.users, err |-> Errorf("service.user.UpdateUserName", r.err)]
    ELSE [users |-> r.users, err |-> Nil]

\* Service.UpdateStatus
UserService_UpdateStatus(us, id, status) ==
    LET r == Storage_UpdateStatus(us, id, status) IN
    IF r.err # Nil
    THEN [users |-> r.users, err |-> Errorf("service.user.UpdateStatus", r.err)]
    ELSE [users |-> r.users, err |-> Nil]

(***************************************************************************)
(* service/article.                                                        *)
(***************************************************************************)
\* Service.GetAll
ArticleService_GetAll(as) ==
    LET r == Storage_GetAllArticles(as) IN
    IF r.err # Nil
    THEN [arts |-> <<>>, err |-> Errorf("service.article.GetAll", r.err)]
    ELSE [arts |-> r.arts, err |-> Nil]

\* Service.GetByID
ArticleService_GetByID(as, id) ==
    LET r == Storage_GetArticleByID(as, id) IN
    IF r.err # Nil
    THEN IF ErrorsIs(r.err, StorageErrArticleNotFound)
         THEN [art |-> NoArticle,
               err |-> Errorf("service.article.GetByID", <<ArticleErrArticleNotFound>>)]
         ELSE [art |-> NoArticle, err |-> Errorf("service.article.GetByID", r.err)]
    ELSE [art |-> r.art, err |-> Nil]

\* time.Now() as Service.Create reads it: the one instant of the runs
\* explored; rows stored before them hold an earlier date
TimeNow == "d1"

\* Service.Create
ArticleService_Create(as, art) ==
    LET r == Storage_CreateArticle(as, art.user_id, art.title, art.content, TimeNow) IN
    IF r.err # Nil
    THEN IF ErrorsIs(r.err, StorageErrArticleExists)
         THEN [articles |-> r.articles,
               err |-> Errorf("service.article.Create", <<ArticleErrArticleExists>>)]
         ELSE [articles |-> r.articles, err |-> Errorf("service.article.Create", r.err)]
    ELSE [articles |-> r.articles, err |-> Nil]

\* Service.Update as it would be with the two tests turned round (the
\* earlier Service.Update tests art.Title == "" and art.Content == "").
ArticleService_Update_Inverted(as, art) ==
    LET w1 == IF art.title = ""
              THEN Storage_UpdateArticleTitle(as, art.id, art.title)
              ELSE [articles |-> as, err |-> Nil]
        w2 == IF art.content = ""
              THEN Storage_UpdateArticleContent(w1.articles, art.id, art.content)
              ELSE w1
    IN  IF w2.err # Nil
        THEN [articles |-> w2.articles, err |-> Errorf("service.article.Update", w2.err)]
        ELSE [articles |-> w2.articles, err |-> Nil]

\* Service.Update as it would be if it also stored the owner the body names.
ArticleService_Update_WritesOwner(as, art) ==
    LET w1 == IF art.title # ""
              THEN Storage_UpdateArticleTitle(as, art.id, art.title)
              ELSE [articles |-> as, err |-> Nil]
        w2 == IF art.content # ""
              THEN Storage_UpdateArticleContent(w1.articles, art.id, art.content)
              ELSE w1
        w3 == IF art.id \in DOMAIN w2.articles
              THEN [w2.articles EXCEPT ![art.id].user_id = art.user_id]
              ELSE w2.articles
    IN  IF w2.err # Nil
        THEN [articles |-> w3, err |-> Errorf("service.article.Update", w2.err)]
        ELSE [articles |-> w3, err |-> Nil]

\* Service.Update: the title write, then the content write; err is the
\* result of the write made last.
ArticleService_Update(as, art) ==
    LET w1 == IF art.title # ""
              THEN Storage_UpdateArticleTitle(as, art.id, art.title)
              ELSE [articles |-> as, err |-> Nil]
        w2 == IF art.content # ""
              THEN Storage_UpdateArticleContent(w1.articles, art.id, art.content)
              ELSE w1
    IN  IF w2.err # Nil
        THEN [articles |-> w2.articles, err |-> Errorf("service.article.Update", w2.err)]
        ELSE [articles |-> w2.articles, err |-> Nil]

\* Service.Remove
ArticleService_Remove(as, id) ==
    LET r == Storage_RemoveArticle(as, id) IN
    IF r.err # Nil
    THEN IF ErrorsIs(r.err, StorageErrArticleNotFound)
         THEN [articles |-> r.articles,
               err |-> Errorf("service.article.RemoveUser", <<ArticleErrArticleNotFound>>)]
         ELSE [articles |-> r.articles, err |-> Errorf("service.article.RemoveUser", r.err)]
    ELSE [articles |-> r.articles, err |-> Nil]

(***************************************************************************)
(* Handlers.  A handler takes the tables, the request context, the path    *)
(* parameter and the decoded body, and returns the tables after it, the    *)
(* envelopes it wrote with render.JSON (in order), the result of its       *)
(* CheckClaim call and the error of the service call it made last.         *)
(* Request bodies are well-formed JSON: DecodeJSON does not fail.          *)
(***************************************************************************)
\* response.Err
RespErr(errMsg) ==
    [status |-> "Error", error |-> errMsg, token |-> NoToken, users |-> <<>>,
     articles |-> <<>>]
RespOk ==
    [status |-> "OK", error |-> "", token |-> NoToken, users |-> <<>>,
     articles |-> <<>>]
RespToken(token) ==
    [status |-> "OK", error |-> "", token |-> token, users |-> <<>>,
     articles |-> <<>>]
\* resp.Response{Status: resp.StatusOk, Users: &users}
RespUsers(us) ==
    [status |-> "OK", error |-> "", token |-> NoToken, users |-> us,
     articles |-> <<>>]
\* resp.Response{Status: resp.StatusOk, Articles: &articles}
RespArticles(arts) ==
    [status |-> "OK", error |-> "", token |-> NoToken, users |-> <<>>,
     articles |-> arts]
\* http.Error(w, err.Error(), http.StatusUnauthorized) of the Authenticator:
\* a plain-text answer, no envelope
Resp401(verr) ==
    [status |-> "401", error |-> verr[1], token |-> NoToken, users |-> <<>>,
     articles |-> <<>>]

\* no CheckClaim call was made
NoGuard == [called |-> FALSE, expected |-> "", ok |-> FALSE, err |-> Nil]
\* the CheckClaim call made: the expected claim passed and the results
Guarded(g, expectedClaim) ==
    [called |-> TRUE, expected |-> expectedClaim, ok |-> g.ok, err |-> g.err]

\* what a handler of the users routes produced
UOut(us, resp, guard, svc) ==
    [users |-> us, resp |-> resp, guard |-> guard, svc |-> svc, sentinels |-> sentinels]
\* what a handler of the articles routes produced
AOut(as, resp, guard, svc) == [articles |-> as, resp |-> resp, guard |-> guard, svc |-> svc]

\* User.login as it would be if the handler told a client that the user
\* name is unknown.
User_login_TellsNotFound(us, cred) ==
    IF cred.username = ""
    THEN UOut(us, <<RespErr("invalid credentials: user name is empty")>>, NoGuard, Nil)
    ELSE IF cred.password = ""
    THEN UOut(us, <<RespErr("invalid credentials: password is empty")>>, NoGuard, Nil)
    ELSE LET r == UserService_Login(us, cred.username, cred.password)
             out == IF r.err # Nil
                    THEN IF ErrorsIs(r.err, UserErrUserNotFound)
                         THEN UOut(us, <<RespErr("user not found")>>, NoGuard, r.err)
                         ELSE UOut(us, <<RespErr("internal error")>>, NoGuard, r.err)
                    ELSE UOut(us, <<RespToken(r.token)>>, NoGuard, Nil)
         IN  [out EXCEPT !.sentinels.storageErrUserNotFound = r.errUserNotFound]

\* User.login
User_login(us, cred) ==
    IF cred.username = ""
    THEN UOut(us, <<RespErr("invalid credentials: user name is empty")>>, NoGuard, Nil)
    ELSE IF cred.password = ""
    THEN UOut(us, <<RespErr("invalid credentials: password is empty")>>, NoGuard, Nil)
    ELSE LET r == UserService_Login(us, cred.username, cred.password)
             out == IF r.err # Nil
                    THEN UOut(us, <<RespErr("internal error")>>, NoGuard, r.err)
                    ELSE UOut(us, <<RespToken(r.token)>>, NoGuard, Nil)
         IN  [out EXCEPT !.sentinels.storageErrUserNotFound = r.errUserNotFound]

\* User.register from the return of Service.Register on: r is what the
\* service call gave
User_register_Write(r) ==
    IF r.err # Nil
    THEN IF ErrorsIs(r.err, UserErrUserExists)
         THEN UOut(r.users, <<RespErr("user already exists")>>, NoGuard, r.err)
         ELSE UOut(r.users, <<RespErr("internal error")>>, NoGuard, r.err)
    ELSE UOut(r.users, <<RespOk>>, NoGuard, Nil)

\* User.register
User_register(us, cred) ==
    IF cred.username = ""
    THEN UOut(us, <<RespErr("invalid credentials: user name is empty")>>, NoGuard, Nil)
    ELSE IF cred.password = ""
    THEN UOut(us, <<RespErr("password is empty")>>, NoGuard, Nil)
    ELSE User_register_Write(UserService_Register(us, cred.username, cred.password))

\* User.getAll
User_getAll(us) ==
    LET r == UserService_GetAll(us) IN
    IF r.err # Nil
    THEN UOut(us, <<RespErr("internal error")>>, NoGuard, r.err)
    ELSE UOut(us, <<RespUsers(r.users)>>, NoGuard, Nil)

\* User.getByID.  A path parameter that is no number is logged and the
\* handler goes on with id 0.
User_getByID(us, idParam) ==
    LET id == Atoi(idParam)
        r == UserService_UserByID(us, id.v)
    IN  IF r.err # Nil
        THEN UOut(us, <<RespErr("internal error")>>, NoGuard, r.err)
        ELSE UOut(us, <<RespUsers(<<r.user>>)>>, NoGuard, Nil)

\* User.update
User_update(us, ctx, id, upd) ==
    LET g == CheckClaim(ctx, id) IN
    IF g.err # Nil
    THEN UOut(us, <<RespErr("internal error")>>, Guarded(g, id), Nil)
    ELSE IF ~g.ok
    THEN UOut(us, <<RespErr("not enough rights")>>, Guarded(g, id), Nil)
    ELSE LET userID == Atoi(id) IN
         IF userID.err # Nil
         THEN UOut(us, <<RespErr("internal error")>>, Guarded(g, id), Nil)
         ELSE LET n == IF upd.username # ""
                       THEN UserService_UpdateUserName(us, userID.v, upd.username)
                       ELSE [users |-> us, err |-> Nil]
              IN  IF n.err # Nil
                  THEN [(IF ErrorsAsError(n.err)
                         THEN UOut(n.users, <<RespErr("user name already taken")>>,
                                   Guarded(g, id), n.err)
                         ELSE UOut(n.users, <<RespErr("internal error")>>,
                                   Guarded(g, id), n.err))
                        EXCEPT !.sentinels.userErrUserNameTaken =
                                   ErrorsAsTarget(sentinels.userErrUserNameTaken, n.err)]
                  ELSE LET st == UserService_UpdateStatus(n.users, userID.v, upd.status) IN
                       IF st.err # Nil
                       THEN UOut(st.users, <<RespErr("internal error")>>, Guarded(g, id), st.err)
                       ELSE UOut(st.users, <<RespOk>>, Guarded(g, id), Nil)

\* User.remove.  A path parameter that is no number writes an envelope and
\* the handler goes on with id 0.
User_remove(us, ctx, idParam) ==
    LET id == Atoi(idParam)
        first == IF id.err # Nil THEN <<RespErr("internal error")>> ELSE <<>>
        g == CheckClaim(ctx, Itoa(id.v))
    IN  IF g.err # Nil
        THEN UOut(us, first \o <<RespErr("internal error")>>, Guarded(g, Itoa(id.v)), Nil)
        ELSE IF ~g.ok
        THEN UOut(us, first \o <<RespErr("not enough rights")>>, Guarded(g, Itoa(id.v)), Nil)
        ELSE LET r == UserService_Remove(us, id.v) IN
             IF r.err # Nil
             THEN UOut(r.users, first \o <<RespErr("internal error")>>, Guarded(g, Itoa(id.v)), r.err)
             ELSE UOut(r.users, first \o <<RespOk>>, Guarded(g, Itoa(id.v)), Nil)

\* Article.getAll
Article_getAll(as) ==
    LET r == ArticleService_GetAll(as) IN
    IF r.err # Nil
    THEN AOut(as, <<RespErr("internal error")>>, NoGuard, r.err)
    ELSE AOut(as, <<RespArticles(r.arts)>>, NoGuard, Nil)

\* Article.getByID
Article_getByID(as, idParam) ==
    LET id == Atoi(idParam) IN
    IF id.err # Nil
    THEN AOut(as, <<RespErr("internal error")>>, NoGuard, Nil)
    ELSE LET r == ArticleService_GetByID(as, id.v) IN
         IF r.err # Nil
         THEN IF ErrorsIs(r.err, ArticleErrArticleNotFound)
              THEN AOut(as, <<RespErr("article not found")>>, NoGuard, r.err)
              ELSE AOut(as, <<RespErr("internal error")>>, NoGuard, r.err)
         ELSE AOut(as, <<RespArticles(<<r.art>>)>>, NoGuard, Nil)

\* Article.create
Article_create(as, ctx, art) ==
    LET g == CheckClaim(ctx, Itoa(art.user_id)) IN
    IF g.err # Nil
    THEN AOut(as, <<RespErr("internal error")>>, Guarded(g, Itoa(art.user_id)), Nil)
    ELSE IF ~g.ok
    THEN AOut(as, <<RespErr("not enough rights")>>, Guarded(g, Itoa(art.user_id)), Nil)
    ELSE IF art.title = ""
    THEN AOut(as, <<RespErr("title is empty")>>, Guarded(g, Itoa(art.user_id)), Nil)
    ELSE IF art.content = ""
    THEN AOut(as, <<RespErr("content is empty")>>, Guarded(g, Itoa(art.user_id)), Nil)
    ELSE LET r == ArticleService_Create(as, art) IN
         IF r.err # Nil
         THEN IF ErrorsIs(r.err, ArticleErrArticleExists)
              THEN AOut(r.articles, <<RespErr("article title already taken")>>,
                        Guarded(g, Itoa(art.user_id)), r.err)
              ELSE AOut(r.articles, <<RespErr("internal error")>>, Guarded(g, Itoa(art.user_id)), r.err)
         ELSE AOut(r.articles, <<RespOk>>, Guarded(g, Itoa(art.user_id)), Nil)

\* Article.update as it would be if the owner were read from the decoded
\* body instead of the stored article.
Article_update_owner_FromBody(ar, art) == art.user_id

\* The owner Article.update hands to CheckClaim: the UserID of ar, the
\* article fetched from storage (art is the decoded body).
Article_update_owner(ar, art) == ar.user_id

\* Article.update.  The article fetched for the ownership check is the one
\* of the path parameter; the article handed to Service.Update is the
\* decoded body.
Article_update(as, ctx, idParam, art) ==
    LET articleID == Atoi(idParam) IN
    IF articleID.err # Nil
    THEN AOut(as, <<RespErr("internal error")>>, NoGuard, Nil)
    ELSE LET ar == ArticleService_GetByID(as, articleID.v) IN
         IF ar.err # Nil
         THEN IF ErrorsIs(ar.err, StorageErrArticleNotFound)
              THEN AOut(as, <<RespErr("article not found")>>, NoGuard, ar.err)
              ELSE AOut(as, <<RespErr("internal error")>>, NoGuard, ar.err)
         ELSE LET g == CheckClaim(ctx, Itoa(Article_update_owner(ar.art, art))) IN
              IF g.err # Nil
              THEN AOut(as, <<RespErr("internal error")>>, Guarded(g, Itoa(Article_update_owner(ar.art, art))), Nil)
              ELSE IF ~g.ok
              THEN AOut(as, <<RespErr("not enough rights")>>, Guarded(g, Itoa(Article_update_owner(ar.art, art))), Nil)
              ELSE LET r == ArticleService_Update(as, art) IN
                   IF r.err # Nil
                   THEN IF ErrorsIs(r.err, ArticleErrArticleNotFound)
                        THEN AOut(r.articles, <<RespErr("article not found")>>,
                                  Guarded(g, Itoa(Article_update_owner(ar.art, art))), r.err)
                        ELSE AOut(r.articles, <<RespErr("internal error")>>,
                                  Guarded(g, Itoa(Article_update_owner(ar.art, art))), r.err)
                   ELSE AOut(r.articles, <<RespOk>>, Guarded(g, Itoa(Article_update_owner(ar.art, art))), Nil)

\* Article.remove.  In the branch of a failed fetch the "article not found"
\* envelope is written without a return before the "internal error" one.
Article_remove(as, ctx, idParam) ==
    LET id == Atoi(idParam) IN
    IF id.err # Nil
    THEN AOut(as, <<RespErr("internal error")>>, NoGuard, Nil)
    ELSE LET art == ArticleService_GetByID(as, id.v) IN
         IF art.err # Nil
         THEN AOut(as,
                   (IF ErrorsIs(art.err, ArticleErrArticleNotFound)
                    THEN <<RespErr("article not found")>> ELSE <<>>)
                   \o <<RespErr("internal error")>>,
                   NoGuard, art.err)
         ELSE LET g == CheckClaim(ctx, Itoa(art.art.user_id)) IN
              IF g.err # Nil
              THEN AOut(as, <<RespErr("internal error")>>, Guarded(g, Itoa(art.art.user_id)), Nil)
              ELSE IF ~g.ok
              THEN AOut(as, <<RespErr("not enough rights")>>, Guarded(g, Itoa(art.art.user_id)), Nil)
              ELSE LET r == ArticleService_Remove(as, id.v) IN
                   IF r.err # Nil
                   THEN IF ErrorsIs(r.err, ArticleErrArticleNotFound)
                        THEN AOut(r.articles, <<RespErr("article not found")>>,
                                  Guarded(g, Itoa(art.art.user_id)), r.err)
                        ELSE AOut(r.articles, <<RespErr("internal error")>>,
                                  Guarded(g, Itoa(art.art.user_id)), r.err)
                   ELSE AOut(r.articles, <<RespOk>>, Guarded(g, Itoa(art.art.user_id)), Nil)

(***************************************************************************)
(* Requests.                                                               *)
(***************************************************************************)
\* The uid claims a request context may hold behind the jwtauth middleware:
\* the float64 uid of a token of NewToken, and what any other token signed
\* with the secret may carry (no uid, a string, a value of another type).
UidClaims ==
    {ClaimsOf([empty |-> FALSE, uid |-> n]) : n \in 1..MaxUsers}
    \cup {AbsentClaim, StringClaim("1"), BoolClaim}

\* What the Authorization header of a request may hold: a token signed with
\* the server's secret and not expired, one signed with it and expired, one
\* not signed with it, or nothing.
Tokens == {"signed", "expired", "forged", "none"}

\* jwtauth.Verifier: the error it leaves in the request context
Verifier(token) ==
    CASE token = "signed" -> Nil
      [] token = "expired" -> <<"token is expired">>
      [] token = "forged" -> <<"token is unauthorized">>
      [] OTHER -> <<"no token found">>

\* jwtauth.Authenticator as it would be if it passed every request on.
Authenticator_PassesAll(verr) == TRUE

\* jwtauth.Authenticator: the request reaches the handler iff the Verifier
\* left no error; otherwise it is answered 401.
Authenticator(verr) == verr = Nil

\* a context the Verifier and Authenticator middleware let through
Ctx(c) == [err |-> Nil, uid |-> c]
\* the context of a public route
NoCtx == [err |-> Nil, uid |-> AbsentClaim]

\* {id} path parameters
UserPaths == {Itoa(n) : n \in 1..MaxUsers} \cup {"x", "1.0"}
ArticlePaths == {Itoa(n) : n \in 1..MaxArticles} \cup {"x"}

\* the zero body
NoBody == [username |-> "", password |-> "", status |-> "",
           id |-> 0, title |-> "", content |-> "", user_id |-> 0]

\* cancelled: the client goes away, and r.Context() is cancelled, while the
\* handler is in its service call
Request(op, ctx, path, body) ==
    [op |-> op, token |-> "none", ctx |-> ctx, path |-> path, body |-> body,
     cancelled |-> FALSE]

\* what is kept of a handled request
Handled(req, out) ==
    [req |-> req, resp |-> out.resp, guard |-> out.guard, svc |-> out.svc]

\* no request is being answered
Idle == [req |-> Request("none", NoCtx, "", NoBody), resp |-> <<>>,
         guard |-> NoGuard, svc |-> Nil]

\* the error variables as their packages declare them
InitSentinels ==
    [storageErrUserNotFound |-> <<"user not found">>,
     userErrUserNameTaken |-> <<"user name already taken">>]

\* the goroutines that serve register requests side by side
Procs == {1, 2}

\* a goroutine that serves no request
Waiting ==
    [pc |-> "idle", cred |-> NoBody, passHash |-> NoUser.pass_hash, err |-> Nil,
     resp |-> <<>>, overlap |-> FALSE]

\* a goroutine that serves no article request
NotServing == [pc |-> "idle", req |-> Idle.req, resp |-> <<>>]

Init ==
    /\ users = <<>>
    /\ articles = <<>>
    /\ last = Idle
    /\ sentinels = InitSentinels
    /\ io = "ok"
    /\ inflight = [p \in Procs |-> Waiting]
    /\ removed = {}
    /\ serving = [p \in Procs |-> NotServing]

(***************************************************************************)
(* One action per route.                                                   *)
(***************************************************************************)
\* POST /users/register
Register ==
    /\ last = Idle
    /\ \E u \in UserNames \cup {""}, p \in Passwords \cup {""}, gone \in BOOLEAN :
        \* the handler passes no context to Service.Register, which makes its
        \* own from context.Background(): gone reaches no call
        LET body == [NoBody EXCEPT !.username = u, !.password = p]
            out == User_register(users, body)
            req == [Request("user.register", NoCtx, "", body) EXCEPT !.cancelled = gone]
        IN  /\ DOMAIN out.users \subseteq 1..MaxUsers
            /\ users' = out.users
            /\ last' = Handled(req, out)
            /\ sentinels' = out.sentinels
            /\ UNCHANGED <<articles, io, inflight, removed, serving>>

\* POST /users/login
Login ==
    /\ last = Idle
    /\ \E u \in UserNames \cup {""}, p \in Passwords \cup {""} :
        LET body == [NoBody EXCEPT !.username = u, !.password = p]
            out == User_login(users, body)
        IN  /\ users' = out.users
            /\ last' = Handled(Request("user.login", NoCtx, "", body), out)
            /\ sentinels' = out.sentinels
            /\ UNCHANGED <<articles, io, inflight, removed, serving>>

\* GET /users
GetAllUsers ==
    /\ last = Idle
    /\ LET out == User_getAll(users)
       IN  /\ last' = Handled(Request("user.getAll", NoCtx, "", NoBody), out)
           /\ UNCHANGED <<users, articles, sentinels, io, inflight, removed, serving>>

\* GET /users/{id}
GetUserByID ==
    /\ last = Idle
    /\ \E id \in UserPaths :
        LET out == User_getByID(users, id)
        IN  /\ last' = Handled(Request("user.getByID", NoCtx, id, NoBody), out)
            /\ UNCHANGED <<users, articles, sentinels, io, inflight, removed, serving>>

\* PUT /users/{id}
UpdateUser ==
    /\ last = Idle
    /\ \E tok \in Tokens :
        /\ Authenticator(Verifier(tok))
        /\ \E c \in UidClaims, id \in UserPaths,
           u \in UserNames \cup {""}, st \in Statuses \cup {""} :
            LET body == [NoBody EXCEPT !.username = u, !.status = st]
                out == User_update(users, Ctx(c), id, body)
            IN  /\ users' = out.users
                /\ last' = Handled([Request("user.update", Ctx(c), id, body) EXCEPT !.token = tok], out)
                /\ sentinels' = out.sentinels
                /\ UNCHANGED <<articles, io, inflight, removed, serving>>

\* DELETE /users/{id}
RemoveUser ==
    /\ last = Idle
    /\ \E tok \in Tokens :
        /\ Authenticator(Verifier(tok))
        /\ \E c \in UidClaims, id \in UserPaths :
            LET out == User_remove(users, Ctx(c), id)
            IN  /\ users' = out.users
                /\ last' = Handled([Request("user.remove", Ctx(c), id, NoBody) EXCEPT !.token = tok], out)
                /\ sentinels' = out.sentinels
                /\ removed' = removed \cup (DOMAIN users \ DOMAIN out.users)
                /\ UNCHANGED <<articles, io, inflight, serving>>

\* POST /articles
CreateArticle ==
    /\ last = Idle
    /\ \E tok \in Tokens :
        /\ Authenticator(Verifier(tok))
        /\ \E c \in UidClaims, a \in 1..MaxUsers,
           t \in Titles \cup {""}, ct \in Contents \cup {""} :
            LET body == [NoBody EXCEPT !.user_id = a, !.title = t, !.content = ct]
                out == Article_create(articles, Ctx(c), body)
            IN  /\ DOMAIN out.articles \subseteq 1..MaxArticles
                /\ articles' = out.articles
                /\ last' = Handled([Request("article.create", Ctx(c), "", body) EXCEPT !.token = tok], out)
                /\ UNCHANGED <<users, sentinels, io, inflight, removed, serving>>

\* PUT /articles/{id}
UpdateArticle ==
    /\ last = Idle
    /\ \E tok \in Tokens :
        /\ Authenticator(Verifier(tok))
        /\ \E c \in UidClaims, id \in ArticlePaths, bid \in 0..MaxArticles, a \in 1..MaxUsers,
           t \in Titles \cup {""}, ct \in Contents \cup {""} :
            LET body == [NoBody EXCEPT !.id = bid, !.user_id = a, !.title = t, !.content = ct]
                out == Article_update(articles, Ctx(c), id, body)
            IN  /\ articles' = out.articles
                /\ last' = Handled([Request("article.update", Ctx(c), id, body) EXCEPT !.token = tok], out)
                /\ UNCHANGED <<users, sentinels, io, inflight, removed, serving>>

\* DELETE /articles/{id}
RemoveArticle ==
    /\ last = Idle
    /\ \E tok \in Tokens :
        /\ Authenticator(Verifier(tok))
        /\ \E c \in UidClaims, id \in ArticlePaths :
            LET out == Article_remove(articles, Ctx(c), id)
            IN  /\ articles' = out.articles
                /\ last' = Handled([Request("article.remove", Ctx(c), id, NoBody) EXCEPT !.token = tok], out)
                /\ UNCHANGED <<users, sentinels, io, inflight, removed, serving>>

\* GET /articles
GetAllArticles ==
    /\ last = Idle
    /\ LET out == Article_getAll(articles)
       IN  /\ last' = Handled(Request("article.getAll", NoCtx, "", NoBody), out)
           /\ UNCHANGED <<users, articles, sentinels, io, inflight, removed, serving>>

\* GET /articles/{id}
GetArticleByID ==
    /\ last = Idle
    /\ \E id \in ArticlePaths :
        LET out == Article_getByID(articles, id)
        IN  /\ last' = Handled(Request("article.getByID", NoCtx, id, NoBody), out)
            /\ UNCHANGED <<users, articles, sentinels, io, inflight, removed, serving>>

\* the routes of the two groups that use the jwtauth middleware
ProtectedRoutes ==
    {"user.update", "user.remove", "article.create", "article.update", "article.remove"}

\* A request to a protected route that the Authenticator answers 401: no
\* handler runs and the body is not read.
Unauthorized ==
    /\ last = Idle
    /\ \E tok \in Tokens, op \in ProtectedRoutes, id \in UserPaths \cup ArticlePaths :
        /\ ~Authenticator(Verifier(tok))
        /\ last' = [req |-> [Request(op, [err |-> Verifier(tok), uid |-> AbsentClaim],
                                     id, NoBody) EXCEPT !.token = tok],
                    resp |-> <<Resp401(Verifier(tok))>>, guard |-> NoGuard, svc |-> Nil]
        /\ UNCHANGED <<users, articles, sentinels, io, inflight, removed, serving>>

\* the handler has returned
Done ==
    /\ last # Idle
    /\ last' = Idle
    /\ UNCHANGED <<users, articles, sentinels, io, inflight, removed, serving>>

\* the database file becomes unusable: PrepareContext fails from now on
StorageFails ==
    /\ last = Idle
    /\ io = "ok"
    /\ io' = "fail"
    /\ UNCHANGED <<users, articles, last, sentinels, inflight, removed, serving>>

\* the storage methods of the handlers that make two writes
Statements ==
    {"storage.service.UpdateUserName", "storage.sqlite.UpdateStatus",
     "storage.sqlite.UpdateArticleTitle", "storage.sqlite.UpdateArticleContent"}

\* one storage method fails from now on, the others work: what a handler
\* sees when the database fails between two of its calls
StatementFails ==
    /\ last = Idle
    /\ io = "ok"
    /\ \E op \in Statements : io' = op
    /\ UNCHANGED <<users, articles, last, sentinels, inflight, removed, serving>>

\* the database file can be used again
StorageRecovers ==
    /\ last = Idle
    /\ io # "ok"
    /\ io' = "ok"
    /\ UNCHANGED <<users, articles, last, sentinels, inflight, removed, serving>>

(***************************************************************************)
(* POST /users/register served by two goroutines at once.  A request is    *)
(* three steps: the handler validates the credentials and the service      *)
(* hashes the password; the INSERT runs (SQLite runs one statement at a    *)
(* time); the service and the handler map the result and the envelope is   *)
(* written.  overlap records that another request was in flight when this  *)
(* one was.                                                                *)
(***************************************************************************)
InFlight(p) == inflight[p].pc \in {"hashed", "inserted"}

\* the request arrives: User.register up to the call of Storage.Register
RegisterArrives(p) ==
    /\ last = Idle
    /\ inflight[p].pc = "idle"
    /\ \E u \in UserNames \cup {""}, pw \in Passwords \cup {""} :
        LET body == [NoBody EXCEPT !.username = u, !.password = pw]
            both == \E q \in Procs \ {p} : InFlight(q)
        IN  inflight' =
              [q \in Procs |->
                 IF q # p
                 THEN [inflight[q] EXCEPT !.overlap = @ \/ (InFlight(q) /\ u # "" /\ pw # "")]
                 ELSE IF u = "" \/ pw = ""
                      THEN [Waiting EXCEPT !.pc = "done", !.cred = body,
                                           !.resp = User_register(users, body).resp]
                      ELSE [Waiting EXCEPT !.pc = "hashed", !.cred = body,
                                           !.passHash = GenerateFromPassword(pw),
                                           !.overlap = both]]
    /\ UNCHANGED <<users, articles, last, sentinels, io, removed, serving>>

\* Storage.Register runs its INSERT
RegisterInserts(p) ==
    /\ inflight[p].pc = "hashed"
    /\ LET r == Storage_Register(users, inflight[p].cred.username, inflight[p].passHash)
       IN  /\ DOMAIN r.users \subseteq 1..MaxUsers
           /\ users' = r.users
           /\ inflight' = [inflight EXCEPT ![p].pc = "inserted", ![p].err = r.err]
    /\ UNCHANGED <<articles, last, sentinels, io, removed, serving>>

\* Service.Register and User.register return: the envelope is written
RegisterResponds(p) ==
    /\ inflight[p].pc = "inserted"
    /\ LET r == UserService_Register_Return([users |-> users, err |-> inflight[p].err])
           out == User_register_Write(r)
       IN  inflight' = [inflight EXCEPT ![p].pc = "done", ![p].err = r.err,
                                        ![p].resp = out.resp]
    /\ UNCHANGED <<users, articles, last, sentinels, io, removed, serving>>

NextRace == \E p \in Procs : RegisterArrives(p) \/ RegisterInserts(p) \/ RegisterResponds(p)

(***************************************************************************)
(* The articles routes served by two goroutines at once.  PUT and DELETE   *)
(* /articles/{id} are two steps: the handler fetches the article of the    *)
(* path id and checks the uid claim against its owner; then                *)
(* Service.Update or Service.Remove runs its statements and the envelope   *)
(* is written.  Nothing ties the two steps together: each storage call     *)
(* prepares and runs its own statement.  POST /articles is one step, its   *)
(* one INSERT.  The tokens are the ones the server issues.  A goroutine    *)
(* that has written its envelope waits for its next request; the envelope  *)
(* it wrote last is kept in resp.                                          *)
(***************************************************************************)
\* the envelope Article.update and Article.remove write after their service
\* call
Article_written(err) ==
    IF err # Nil
    THEN IF ErrorsIs(err, ArticleErrArticleNotFound)
         THEN <<RespErr("article not found")>>
         ELSE <<RespErr("internal error")>>
    ELSE <<RespOk>>

\* the handler of the request, run on the table as it is now
Article_handle(as, req) ==
    IF req.op = "article.update"
    THEN Article_update(as, req.ctx, req.path, req.body)
    ELSE Article_remove(as, req.ctx, req.path)

\* PUT or DELETE /articles/{id} arrives: the handler up to its CheckClaim
ArticleFetches(p) ==
    /\ serving[p].pc = "idle"
    /\ \E op \in {"article.update", "article.remove"}, n \in 1..MaxUsers,
          id \in ArticlePaths, bid \in 0..MaxArticles, t \in Titles :
        LET body == IF op = "article.update"
                    THEN [NoBody EXCEPT !.id = bid, !.user_id = n, !.title = t]
                    ELSE NoBody
            req == [Request(op, Ctx(Float64Claim(n)), id, body) EXCEPT !.token = "signed"]
            out == Article_handle(articles, req)
            passes == out.guard.called /\ out.guard.err = Nil /\ out.guard.ok
        IN  serving' = [serving EXCEPT ![p] =
                          IF passes
                          THEN [pc |-> "checked", req |-> req, resp |-> <<>>]
                          ELSE [NotServing EXCEPT !.resp = out.resp]]
    /\ UNCHANGED <<users, articles, last, sentinels, io, inflight, removed>>

\* Service.Update or Service.Remove runs and the envelope is written
ArticleWrites(p) ==
    /\ serving[p].pc = "checked"
    /\ LET req == serving[p].req
           r == IF req.op = "article.update"
                THEN ArticleService_Update(articles, req.body)
                ELSE ArticleService_Remove(articles, Atoi(req.path).v)
       IN  /\ articles' = r.articles
           /\ serving' = [serving EXCEPT ![p] =
                            [NotServing EXCEPT !.resp = Article_written(r.err)]]
    /\ UNCHANGED <<users, last, sentinels, io, inflight, removed>>

\* POST /articles, from its arrival to its envelope
ArticleCreates(p) ==
    /\ serving[p].pc = "idle"
    /\ \E n \in 1..MaxUsers, t \in Titles, ct \in Contents :
        LET body == [NoBody EXCEPT !.user_id = n, !.title = t, !.content = ct]
            req == [Request("article.create", Ctx(Float64Claim(n)), "", body)
                      EXCEPT !.token = "signed"]
            out == Article_create(articles, req.ctx, body)
        IN  /\ DOMAIN out.articles \subseteq 1..MaxArticles
            /\ articles' = out.articles
            /\ serving' = [serving EXCEPT ![p] = [NotServing EXCEPT !.resp = out.resp]]
    /\ UNCHANGED <<users, last, sentinels, io, inflight, removed>>

NextArticleRace ==
    \E p \in Procs : ArticleFetches(p) \/ ArticleWrites(p) \/ ArticleCreates(p)

\* the users routes
NextUsers ==
    \/ GetAllUsers
    \/ GetUserByID
    \/ Register
    \/ Login
    \/ UpdateUser
    \/ RemoveUser
    \/ Done

\* the articles routes
NextArticles ==
    \/ GetAllArticles
    \/ GetArticleByID
    \/ CreateArticle
    \/ UpdateArticle
    \/ RemoveArticle
    \/ Done

\* the users routes over a database that may fail
NextFaults ==
    \/ NextUsers
    \/ StorageFails
    \/ StorageRecovers

\* one request to any route, with or without a token the middleware accepts
NextGate ==
    \/ GetAllUsers
    \/ GetUserByID
    \/ Register
    \/ Login
    \/ UpdateUser
    \/ RemoveUser
    \/ GetAllArticles
    \/ GetArticleByID
    \/ CreateArticle
    \/ UpdateArticle
    \/ RemoveArticle
    \/ Unauthorized

\* POST /users/register and PUT /users/{id} over a database of which
\* single methods may fail
NextProfileFaults ==
    \/ Register
    \/ UpdateUser
    \/ Done
    \/ StatementFails
    \/ StorageRecovers

\* PUT /articles/{id} over a database of which single methods may fail
NextEditFaults ==
    \/ UpdateArticle
    \/ Done
    \/ StatementFails
    \/ StorageRecovers

Next == NextFaults \/ NextProfileFaults \/ NextEditFaults \/ NextArticles \/ NextGate \/ NextRace \/ NextArticleRace

\* the whole server
Spec == Init /\ [][Next]_vars

\* The users routes read and write no article and the articles routes no
\* user, so each half is explored on its own.
SpecUsers == Init /\ [][NextUsers]_vars

\* the users routes with storage faults
SpecFaults == Init /\ [][NextFaults]_vars

\* concurrent registrations
SpecRace == Init /\ [][NextRace]_vars

\* the articles routes, once alice and bob have registered
InitArticles ==
    /\ users = [id \in {1, 2} |->
                  [name |-> IF id = 1 THEN "alice" ELSE "bob",
                   pass_hash |-> GenerateFromPassword("pw1"), status |-> ""]]
    /\ articles = <<>>
    /\ last = Idle
    /\ sentinels = InitSentinels
    /\ io = "ok"
    /\ inflight = [p \in Procs |-> Waiting]
    /\ removed = {}
    /\ serving = [p \in Procs |-> NotServing]

SpecArticles == InitArticles /\ [][NextArticles]_vars

\* the articles routes that write no new row, once alice and bob have each
\* published an article
InitEdits ==
    /\ users = [id \in {1, 2} |->
                  [name |-> IF id = 1 THEN "alice" ELSE "bob",
                   pass_hash |-> GenerateFromPassword("pw1"), status |-> ""]]
    /\ articles = [id \in {1, 2} |->
                     [title |-> IF id = 1 THEN "t1" ELSE "t2", content |-> "c0",
                      publish_date |-> "d0", user_id |-> id]]
    /\ last = Idle
    /\ sentinels = InitSentinels
    /\ io = "ok"
    /\ inflight = [p \in Procs |-> Waiting]
    /\ removed = {}
    /\ serving = [p \in Procs |-> NotServing]

NextEdits ==
    \/ UpdateArticle
    \/ Done

SpecEdits == InitEdits /\ [][NextEdits]_vars

\* The database a request to any route may find: alice registered, bob
\* registered or not, and none, one or two articles published.
InitGate ==
    /\ users \in {[id \in S |->
                     [name |-> IF id = 1 THEN "alice" ELSE "bob",
                      pass_hash |-> GenerateFromPassword("pw1"), status |-> ""]]
                  : S \in {{1}, {1, 2}}}
    /\ articles \in {[id \in S |->
                        [title |-> IF id = 1 THEN "t1" ELSE "t2", content |-> "c0",
                         publish_date |-> "d0", user_id |-> id]]
                     : S \in {{}, {1}, {1, 2}}}
    /\ last = Idle
    /\ sentinels = InitSentinels
    /\ io = "ok"
    /\ inflight = [p \in Procs |-> Waiting]
    /\ removed = {}
    /\ serving = [p \in Procs |-> NotServing]

\* one request to any route; the users routes and the articles routes share
\* no table, and runs of several requests to each are SpecUsers and
\* SpecArticles
SpecGate == InitGate /\ [][NextGate]_vars

\* concurrent article requests, once alice and bob have registered
SpecArticleRace == InitArticles /\ [][NextArticleRace]_vars

\* profile updates with faults of single storage methods
SpecProfileFaults == Init /\ [][NextProfileFaults]_vars

\* article updates with faults of single storage methods
SpecEditFaults == InitEdits /\ [][NextEditFaults]_vars

\* accounts are removed while articles are created
NextAccounts ==
    \/ RemoveUser
    \/ CreateArticle
    \/ Done

SpecAccounts == InitArticles /\ [][NextAccounts]_vars

(***************************************************************************)
(* Properties.  last holds the request just handled and what its handler   *)
(* produced; in an action formula last' is the request of the step and the *)
(* unprimed tables are the storage before it.                              *)
(***************************************************************************)
\* the uid claim is a number or a string and names another user than n
UidDiffers(uid, n) ==
    \/ uid.kind = "float64" /\ uid.num # n
    \/ uid.kind = "string" /\ uid.str # Itoa(n)

\* the path parameter is the decimal form of the id n
PathIs(path, n) == Atoi(path).err = Nil /\ Atoi(path).v = n

\* every envelope the handler wrote is an error envelope, and it wrote one
Rejected(h) == h.resp # <<>> /\ \A i \in 1..Len(h.resp) : h.resp[i].status = "Error"

\* C1: a PUT /users/{id} or DELETE /users/{id} whose token uid names another
\* user than the path id leaves the users table as it was: no record is
\* renamed, given another status, removed or added.
C1_ForeignUserRequestWritesNothing ==
    [][ \A n \in 1..MaxUsers :
          ( /\ last'.req.op \in {"user.update", "user.remove"}
            /\ PathIs(last'.req.path, n)
            /\ UidDiffers(last'.req.ctx.uid, n) )
          => users' = users ]_vars

\* C1 witness: user 1's token was used on PUT /users/2 with a new name and a
\* new status while user 2 was registered, and the request was refused.
C1_Witness ==
    /\ last.req.op = "user.update"
    /\ last.req.ctx.uid = Float64Claim(1)
    /\ last.req.path = "2"
    /\ last.req.body.username # ""
    /\ last.req.body.status # ""
    /\ 2 \in DOMAIN users
    /\ users[2].name # last.req.body.username
    /\ users[2].status = ""
    /\ Rejected(last)

\* C2: PUT or DELETE /articles/N with a token uid that differs from the
\* user_id stored for article N is rejected and leaves the articles table as
\* it was, whatever user_id the body carries.
C2_OwnershipFromStoredAuthor ==
    [][ \A n \in DOMAIN articles :
          ( /\ last'.req.op \in {"article.update", "article.remove"}
            /\ PathIs(last'.req.path, n)
            /\ UidDiffers(last'.req.ctx.uid, articles[n].user_id) )
          => (articles' = articles /\ Rejected(last')) ]_vars

\* C2 witness: article 1 is stored for user 1; a PUT /articles/1 whose body
\* names user 1 as the owner and whose token is user 2's was rejected.
C2_Witness ==
    /\ last.req.op = "article.update"
    /\ last.req.path = "1"
    /\ 1 \in DOMAIN articles
    /\ articles[1].user_id = 1
    /\ last.req.body.user_id = 1
    /\ last.req.body.id = 1
    /\ last.req.body.title # ""
    /\ last.req.body.title # articles[1].title
    /\ last.req.ctx.uid = Float64Claim(2)
    /\ last.guard.called
    /\ Rejected(last)

\* C3: a step changes the title or content of an article, or deletes it,
\* only if the request of the step carries a token uid equal to the user_id
\* stored for that article, and a PUT /articles/{id} changes only the
\* article of the path id.  Stated for the tokens the server issues
\* (numeric uid).
C3_OnlyAuthorWritesPathArticle ==
    [][ \A n \in DOMAIN articles :
          ( /\ last'.req.ctx.uid.kind = "float64"
            /\ \/ n \notin DOMAIN articles'
               \/ articles'[n] # articles[n] )
          => ( /\ last'.req.ctx.uid.num = articles[n].user_id
               /\ last'.req.op = "article.update" => PathIs(last'.req.path, n) ) ]_vars

C5_GuardTrueIffNumericEqual ==
    last.guard.called =>
        ( last.guard.ok <=>
            ( /\ last.req.ctx.uid.kind = "float64"
              /\ Itoa(last.req.ctx.uid.num) = last.guard.expected ) )

\* C6: a request whose token uid differs from the expected owner id is
\* answered with the one envelope Error "not enough rights".
C6_MismatchIsForbidden ==
    \A n \in 0..MaxUsers :
        ( /\ last.guard.called
          /\ last.guard.expected = Itoa(n)
          /\ UidDiffers(last.req.ctx.uid, n) )
        => last.resp = <<RespErr("not enough rights")>>

\* C7: a mutating request whose context holds no uid claim, or a uid claim
\* that is neither a number nor a string, changes neither table.
C7_NoUidIsNeverAuthorized ==
    [][ ( /\ last'.req.op \in {"user.update", "user.remove", "article.create",
                               "article.update", "article.remove"}
          /\ last'.req.ctx.uid.kind \notin {"float64", "string"} )
        => (users' = users /\ articles' = articles) ]_vars

\* C8: POST /register with a user name some row already holds, and any
\* non-empty password, fails with ErrUserExists, is answered "user already
\* exists", and leaves the users table as it was.
C8_RegisterExistingName ==
    [][ ( /\ last'.req.op = "user.register"
          /\ last'.req.body.password # ""
          /\ \E id \in DOMAIN users : users[id].name = last'.req.body.username )
        => ( /\ users' = users
             /\ ErrorsIs(last'.svc, UserErrUserExists)
             /\ last'.resp = <<RespErr("user already exists")>> ) ]_vars

\* C8 witness: a name was registered again with another password than the
\* one its row holds the hash of, and the request was refused.
C8_Witness ==
    /\ last.req.op = "user.register"
    /\ \E id \in DOMAIN users :
          /\ users[id].name = last.req.body.username
          /\ users[id].pass_hash # GenerateFromPassword(last.req.body.password)
    /\ last.req.body.password # ""
    /\ ErrorsIs(last.svc, UserErrUserExists)

\* C9: POST /login with the name of a registered user and the password whose
\* hash the row holds is answered OK with a non-empty token whose uid is the
\* id of that row.
C9_LoginAfterRegister ==
    \A id \in DOMAIN users :
        ( /\ last.req.op = "user.login"
          /\ users[id].name = last.req.body.username
          /\ users[id].pass_hash = GenerateFromPassword(last.req.body.password) )
        => /\ Len(last.resp) = 1
           /\ last.resp[1].status = "OK"
           /\ ~last.resp[1].token.empty
           /\ last.resp[1].token.uid = id

\* C9 witness: the user registered second logged in and got a token for id 2.
C9_Witness ==
    /\ last.req.op = "user.login"
    /\ 2 \in DOMAIN users
    /\ users[2].name = last.req.body.username
    /\ users[2].pass_hash = GenerateFromPassword(last.req.body.password)
    /\ last.resp = <<RespToken([empty |-> FALSE, uid |-> 2])>>

\* C10: POST /login with the name of a registered user and a password other
\* than the one whose hash the row holds returns no token; the error is the
\* "incorrect password" wrap of the bcrypt mismatch, not ErrUserNotFound,
\* and neither it nor the envelope written holds the stored hash.
C10_WrongPassword ==
    \A id \in DOMAIN users :
        ( /\ last.req.op = "user.login"
          /\ users[id].name = last.req.body.username
          /\ last.req.body.password # ""
          /\ users[id].pass_hash # GenerateFromPassword(last.req.body.password) )
        => /\ last.resp = <<RespErr("internal error")>>
           /\ last.resp[1].token = NoToken
           /\ last.svc = <<"service.user.Login: incorrect password", BcryptMismatch>>
           /\ ~ErrorsIs(last.svc, UserErrUserNotFound)

\* C10 witness: bob, registered with pw1, tried to log in with pw2.
C10_Witness ==
    /\ last.req.op = "user.login"
    /\ last.req.body.username = "bob"
    /\ last.req.body.password = "pw2"
    /\ \E id \in DOMAIN users :
          /\ users[id].name = "bob"
          /\ users[id].pass_hash = GenerateFromPassword("pw1")
    /\ last.resp[1].status = "Error"

\* C11: the envelopes written for a login with a known user name and a wrong
\* password are the ones the same login gets from the users table without
\* that user, all else equal.
C11_UnknownNameAnsweredAsWrongPassword ==
    \A id \in DOMAIN users :
        ( /\ last.req.op = "user.login"
          /\ users[id].name = last.req.body.username
          /\ last.req.body.password # ""
          /\ users[id].pass_hash # GenerateFromPassword(last.req.body.password) )
        => User_login(Delete(users, {id}), last.req.body).resp = last.resp

\* C11 witness: alice and bob are registered and bob's login with a wrong
\* password was refused.
C11_Witness ==
    /\ last.req.op = "user.login"
    /\ last.req.body.username = "bob"
    /\ last.req.body.password # ""
    /\ \E id \in DOMAIN users :
          /\ users[id].name = "bob"
          /\ users[id].pass_hash # GenerateFromPassword(last.req.body.password)
    /\ \E id \in DOMAIN users : users[id].name = "alice"
    /\ last.resp = <<RespErr("internal error")>>

\* an envelope that holds no password hash and no password: none in the
\* users it lists, none as its error text (its token holds the uid only)
NoSecretIn(envelope) ==
    /\ \A i \in 1..Len(envelope.users) :
          /\ envelope.users[i].pass_hash = NoUser.pass_hash
          /\ envelope.users[i].password = ""
    /\ envelope.error \notin Passwords
    /\ DOMAIN envelope.token = {"empty", "uid"}

C13_UserNamesUnique ==
    \A a, b \in DOMAIN users : a # b => users[a].name # users[b].name

\* C13 witness: user 1 asked for the name user 2 holds and was refused.
C13_Witness ==
    /\ last.req.op = "user.update"
    /\ last.req.path = "1"
    /\ last.req.ctx.uid = Float64Claim(1)
    /\ DOMAIN users = {1, 2}
    /\ last.req.body.username = users[2].name
    /\ last.resp = <<RespErr("user name already taken")>>

\* the request of the step is a PUT /users/n with the token of user n
OwnerUpdates(n) ==
    /\ last'.req.op = "user.update"
    /\ PathIs(last'.req.path, n)
    /\ last'.req.ctx.uid = Float64Claim(n)

\* C14: a PUT /users/n by user n with a non-empty status and an empty user
\* name sets the status of row n to the new value and changes nothing else:
\* the name of row n and every other row stay as they were.
C14_StatusOnlyUpdate ==
    [][ \A n \in DOMAIN users :
          ( /\ OwnerUpdates(n)
            /\ last'.req.body.username = ""
            /\ last'.req.body.status # "" )
          => /\ users' = [users EXCEPT ![n].status = last'.req.body.status]
             /\ last'.resp = <<RespOk>> ]_vars

\* C14 witness: bob, user 2, set his status and was answered OK.
C14_Witness ==
    /\ last.req.op = "user.update"
    /\ last.req.path = "2"
    /\ last.req.ctx.uid = Float64Claim(2)
    /\ last.req.body.username = ""
    /\ last.req.body.status = "busy"
    /\ 2 \in DOMAIN users
    /\ users[2].status = "busy"
    /\ users[2].name = "bob"
    /\ last.resp = <<RespOk>>

\* C15: a PUT /users/n by user n with a non-empty user name and an empty
\* status leaves the status of row n as it was.
C15_NameOnlyUpdateKeepsStatus ==
    [][ \A n \in DOMAIN users :
          ( /\ OwnerUpdates(n)
            /\ last'.req.body.username # ""
            /\ last'.req.body.status = "" )
          => /\ n \in DOMAIN users'
             /\ users'[n].status = users[n].status ]_vars

\* C16: a PUT /users/n by user n with a new user name is answered "user
\* name already taken" exactly when another row holds that name; a write
\* that fails for another reason is not answered so.
C16_NameTakenExactlyOnConflict ==
    \A n \in DOMAIN users :
        ( /\ last.req.op = "user.update"
          /\ PathIs(last.req.path, n)
          /\ last.req.ctx.uid = Float64Claim(n)
          /\ last.req.body.username # "" )
        => ( last.resp = <<RespErr("user name already taken")>>
             <=> \E o \in DOMAIN users \ {n} : users[o].name = last.req.body.username )

\* C17: Login fails with ErrUserNotFound only when no row holds the user
\* name given; a lookup that fails for another reason gives another error.
C17_NotFoundOnlyWhenAbsent ==
    ( /\ last.req.op = "user.login"
      /\ ErrorsIs(last.svc, UserErrUserNotFound) )
    => \A id \in DOMAIN users : users[id].name # last.req.body.username

\* C18: no request changes the package-level error variables: they hold
\* after every step what they held before it.
C18_SentinelsNeverWritten ==
    [][sentinels' = sentinels]_vars

\* the goroutines whose register request for the name u has been answered
AnsweredFor(u) ==
    {p \in Procs : inflight[p].pc = "done" /\ inflight[p].cred.username = u
                   /\ inflight[p].cred.password # ""}

\* C19: when the register requests for one user name, served side by side,
\* have all been answered, exactly one was answered OK, every other one
\* "user already exists", and exactly one row holds the name.
C19_ConcurrentRegisterOneWins ==
    \A u \in UserNames :
        ( /\ AnsweredFor(u) # {}
          /\ \A p \in Procs : inflight[p].cred.username = u => ~InFlight(p) )
        => /\ Cardinality({p \in AnsweredFor(u) : inflight[p].resp = <<RespOk>>}) = 1
           /\ \A p \in AnsweredFor(u) :
                 inflight[p].resp \in {<<RespOk>>, <<RespErr("user already exists")>>}
           /\ Cardinality({id \in DOMAIN users : users[id].name = u}) = 1

\* C19 witness: two requests for bob were in flight together; the first
\* goroutine was answered "user already exists", the second OK.
C19_Witness ==
    /\ inflight[1].pc = "done" /\ inflight[2].pc = "done"
    /\ inflight[1].overlap /\ inflight[2].overlap
    /\ inflight[1].cred.username = "bob" /\ inflight[2].cred.username = "bob"
    /\ inflight[1].cred.password # inflight[2].cred.password
    /\ inflight[1].resp = <<RespErr("user already exists")>>
    /\ inflight[2].resp = <<RespOk>>
    /\ Cardinality({id \in DOMAIN users : users[id].name = "bob"}) = 1

\* C20: a register request that is cancelled while its storage call is in
\* progress writes no row and ends with an error outcome of its own, which
\* is neither OK nor "internal error".
C20_CancellationIsDistinct ==
    [][ ( /\ last'.req.op = "user.register"
          /\ last'.req.cancelled
          /\ last'.req.body.username # ""
          /\ last'.req.body.password # "" )
        => /\ users' = users
           /\ Rejected(last')
           /\ last'.resp # <<RespErr("internal error")>> ]_vars

\* C21: PUT /articles/N or DELETE /articles/N, N a number that is the id of
\* no stored article, is answered with the single envelope "article not
\* found" and leaves the articles table as it was.
C21_MissingArticleIsNotFound ==
    [][ \A n \in 1..MaxArticles :
          ( /\ last'.req.op \in {"article.update", "article.remove"}
            /\ PathIs(last'.req.path, n)
            /\ n \notin DOMAIN articles )
          => ( /\ last'.resp = <<RespErr("article not found")>>
               /\ articles' = articles ) ]_vars

\* C22: a POST /articles answered OK stores a row whose user_id is the id of
\* a user held by the users table at that moment; the token of a user who
\* has been removed creates no article.  Stated for the tokens the server
\* issues (numeric uid).
C22_AuthorExistsAtCreation ==
    [][ ( /\ last'.req.op = "article.create"
          /\ last'.req.ctx.uid.kind = "float64"
          /\ last'.resp = <<RespOk>> )
        => \A n \in DOMAIN articles' \ DOMAIN articles :
              articles'[n].user_id \in DOMAIN users ]_vars

C25_OwnerAndDateImmutable ==
    [][ last'.req.op = "article.update"
        => /\ DOMAIN articles' = DOMAIN articles
           /\ \A n \in DOMAIN articles :
                /\ articles'[n].user_id = articles[n].user_id
                /\ articles'[n].publish_date = articles[n].publish_date ]_vars

\* C25 witness: user 1's PUT on their article 1, with a body that names user
\* 2 as the owner and a new content, was applied, and article 1 is still user
\* 1's and dated as published.
C25_Witness ==
    /\ last.req.op = "article.update"
    /\ last.resp = <<RespOk>>
    /\ last.req.ctx.uid = Float64Claim(1)
    /\ last.req.path = "1"
    /\ last.req.body.id = 1
    /\ last.req.body.user_id = 2
    /\ last.req.body.content = "c1"
    /\ articles[1].content = "c1"
    /\ articles[1].user_id = 1
    /\ articles[1].publish_date = "d0"

\* the request just answered got an OK envelope, and only that
AnsweredOk(h) == Len(h.resp) = 1 /\ h.resp[1].status = "OK"

\* C23: a step that changes or deletes a stored user, or changes the
\* articles table in any way, is the step of a request whose token is signed
\* with the server's secret and not expired; and POST /users/register,
\* POST /users/login, GET /users/{id}, GET /articles and GET /articles/{id},
\* sent without a token, are answered OK when the name is free, the password
\* is the stored one, or the id is stored.
C23_WritesNeedTokenReadsDoNot ==
    [][ LET r == last'.req IN
        /\ ( \/ \E n \in DOMAIN users : n \notin DOMAIN users' \/ users'[n] # users[n]
             \/ articles' # articles )
           => r.token = "signed"
        /\ r.op \in {"user.register", "user.login", "user.getByID",
                     "article.getAll", "article.getByID"}
           => r.token = "none"
        /\ ( /\ r.op = "user.register"
             /\ r.body.username # "" /\ r.body.password # ""
             /\ \A n \in DOMAIN users : users[n].name # r.body.username )
           => AnsweredOk(last') /\ DOMAIN users' # DOMAIN users
        /\ ( /\ r.op = "user.login"
             /\ \E n \in DOMAIN users :
                  /\ users[n].name = r.body.username
                  /\ users[n].pass_hash = GenerateFromPassword(r.body.password) )
           => AnsweredOk(last') /\ last'.resp[1].token # NoToken
        /\ ( /\ r.op = "user.getByID"
             /\ \E n \in DOMAIN users : PathIs(r.path, n) )
           => AnsweredOk(last')
        /\ r.op = "article.getAll"
           => AnsweredOk(last') /\ Len(last'.resp[1].articles) = Cardinality(DOMAIN articles)
        /\ ( /\ r.op = "article.getByID"
             /\ \E n \in DOMAIN articles : PathIs(r.path, n) )
           => AnsweredOk(last') ]_vars

\* C23 witness: DELETE /articles/1 with an expired token, while article 1 is
\* stored, was answered 401 by the middleware and article 1 is still stored.
C23_Witness ==
    /\ last.req.op = "article.remove"
    /\ last.req.token = "expired"
    /\ last.req.path = "1"
    /\ last.resp = <<Resp401(Verifier("expired"))>>
    /\ 1 \in DOMAIN articles

\* C26: the id a POST /users/register gives the user it stores is the id of
\* no user removed before; so the uid of a token issued to a removed user
\* never names the account of a user registered later.
C26_RemovedIdNeverReassigned ==
    [][ last'.req.op = "user.register"
        => \A n \in DOMAIN users' \ DOMAIN users : n \notin removed ]_vars

\* C27: whatever the interleaving, the statements a PUT or DELETE
\* /articles/N runs change or delete only an article whose user_id, when the
\* statements run, is the uid of the request's token.  Stated for DELETE and
\* for a PUT whose body names the article of the path.
C27_WriteLandsOnOwnArticle ==
    [][ \A p \in Procs :
          ( /\ serving[p].pc = "checked"
            /\ serving'[p].pc = "idle"
            /\ \/ serving[p].req.op = "article.remove"
               \/ PathIs(serving[p].req.path, serving[p].req.body.id) )
          => \A n \in DOMAIN articles :
                (n \notin DOMAIN articles' \/ articles'[n] # articles[n])
                => articles[n].user_id = serving[p].req.ctx.uid.num ]_vars

\* C28: a PUT /users/{id} that carries a user name and a status and is
\* answered with an error envelope has changed neither the name nor the
\* status of any user.
C28_FailedUpdateChangesNothing ==
    [][ ( /\ last'.req.op = "user.update"
          /\ last'.req.body.username # ""
          /\ last'.req.body.status # ""
          /\ Rejected(last') )
        => /\ DOMAIN users' = DOMAIN users
           /\ \A n \in DOMAIN users :
                /\ users'[n].name = users[n].name
                /\ users'[n].status = users[n].status ]_vars

\* C29: a PUT /articles/{id} whose body carries a title and a content, and
\* that reaches Service.Update, is answered OK only if neither
\* Storage.UpdateArticleTitle nor Storage.UpdateArticleContent failed.
C29_EitherWriteFailureIsAnError ==
    [][ ( /\ last'.req.op = "article.update"
          /\ last'.req.body.title # ""
          /\ last'.req.body.content # ""
          /\ last'.guard.called /\ last'.guard.ok /\ last'.guard.err = Nil
          /\ \/ Fails("storage.sqlite.UpdateArticleTitle")
             \/ Fails("storage.sqlite.UpdateArticleContent") )
        => Rejected(last') ]_vars

\* C30: the handler of every request writes exactly one envelope, and a
\* handler that has answered a path id that is no number with an error
\* envelope makes no CheckClaim call after it.
C30_OneEnvelopePerRequest ==
    last.req.op # "none"
    => /\ Len(last.resp) = 1
       /\ ( /\ last.req.op \in {"user.getByID", "user.remove"}
            /\ Atoi(last.req.path).err # Nil )
          => ~last.guard.called

====
